---------------------------- MODULE Spec2Model ----------------------------
(***************************************************************************)
(* A model of scripts/fetch_legacy_site.py: the sequential walk over the   *)
(* listing pages, the pool of workers that scrape the detail pages with    *)
(* three GET attempts each, the collection of the records in completion    *)
(* order, the summary counts and the import text.                          *)
(*                                                                         *)
(* Text is a sequence of one-character tokens (<<>> is the empty string);  *)
(* an exception message is a TLA+ string, of which only emptiness is read. *)
(* A page_url is the number n of ".../archives/n.html".  A document is     *)
(* given by what the regular expressions of the code capture in it.        *)
(***************************************************************************)
EXTENDS Integers, Sequences, FiniteSets, Bags, TLC

(* ------------------------------ bounds --------------------------------- *)

\* Detail pages the site links to.
NumLinks == 2

\* MAX_PAGES (line 16) is 10 in the program; the model walks fewer pages.
MAX_PAGES == 3

\* CONCURRENCY (line 17) is 3 in the program; the model runs a smaller pool,
\* which NumLinks tasks exceed.
CONCURRENCY == 1

\* Media URL matches in a document given to extract_from_page on its own.
MaxMedia == 3

\* Records in a sequence given to the summary and to generate_import_text on
\* their own.
MaxVideos == 3

\* Characters behind the bracketed category in a title given to
\* extract_author on its own.
MaxTail == 3

(* --------------------------- Optional[...] ----------------------------- *)

None == [some |-> FALSE]

Some(x) == [some |-> TRUE, val |-> x]

\* Python truthiness of an Optional[str] whose payload is a message:
\* None and "" are both falsy.
TruthyError(e) == e.some /\ e.val # ""

\* Python truthiness of a str held as a token sequence, and of a list.
Truthy(s) == Len(s) > 0

(* ----------------------------- helpers --------------------------------- *)

SeqToSet(s) == {s[i] : i \in 1..Len(s)}

\* Every listing of the finite set S without repetition: the orders in which
\* list(set(...)) may enumerate S.
Orders(S) == {s \in [1..Cardinality(S) -> S] : \A i, j \in 1..Cardinality(S) : i # j => s[i] # s[j]}

RECURSIVE SumSeq(_)
SumSeq(s) == IF s = <<>> THEN 0 ELSE Head(s) + SumSeq(Tail(s))

(* ------------------------------- text ---------------------------------- *)

\* The characters the patterns of the code tell apart, one token each.
\* Non-ASCII characters are written with ASCII stand-ins:
\*   "["  U+3010 left black lenticular bracket    "]"  U+3011 its right one
\*   "{"  U+300C left corner bracket              "("  U+FF08 fullwidth (
\*   "~"  U+2013 en dash                          "#"  U+7B2C ("di", ordinal)
\*   "B"  the site's brand name (U+54AA...)       "Z"  any other CJK character
\*   "nl" U+000A newline
\*   "u1" "u2" "u3"  U+672A U+5206 U+7C7B, the characters of the sentinel author
\* "-", "|", "_", " ", "1" (a digit) and "a" (an ASCII letter) are themselves.
Alphabet == {"[", "]", "{", "(", "~", "#", "B", "Z", "nl", "-", "|", "_", " ", "1", "a"}

\* ord(c): the code point, which orders str values in sorted().
CodePoint(c) ==
    CASE c = "nl" -> 10
      [] c = " "  -> 32
      [] c = "-"  -> 45
      [] c = "1"  -> 49
      [] c = "_"  -> 95
      [] c = "a"  -> 97
      [] c = "|"  -> 124
      [] c = "~"  -> 8211
      [] c = "{"  -> 12300
      [] c = "["  -> 12304
      [] c = "]"  -> 12305
      [] c = "Z"  -> 24352
      [] c = "B"  -> 21674
      [] c = "#"  -> 31532
      [] c = "("  -> 65288
      [] c = "u1" -> 26410
      [] c = "u2" -> 20998
      [] c = "u3" -> 31867

\* len(s): the brand name is the one token that stands for four characters.
RECURSIVE StrLen(_)
StrLen(s) == IF s = <<>> THEN 0 ELSE (IF Head(s) = "B" THEN 4 ELSE 1) + StrLen(Tail(s))

\* \s, \d and . of the re module, over the alphabet.
WS == {" ", "nl"}

Digit == {"1"}

Dot == Alphabet \ {"nl"}

Not(S) == Alphabet \ S

\* str.strip(): leading and trailing whitespace removed.
RECURSIVE LStrip(_)
LStrip(s) == IF s # <<>> /\ Head(s) \in WS THEN LStrip(Tail(s)) ELSE s

RECURSIVE RStrip(_)
RStrip(s) == IF s # <<>> /\ s[Len(s)] \in WS THEN RStrip(SubSeq(s, 1, Len(s) - 1)) ELSE s

Strip(s) == RStrip(LStrip(s))

(* ----------------------- regular expressions --------------------------- *)

\* A pattern is a sequence of items.  One(S), Plus(S), Star(S), Opt(S) are a
\* character class with its greedy quantifier, LazyPlus(S) is S+?, Group(it)
\* marks the item as capture group 1, AtEnd is $ and Alt(ps) is (?:p1|p2|...).
One(S) == [t |-> "cls", set |-> S, lo |-> 1, many |-> FALSE, greedy |-> TRUE, cap |-> FALSE]

Plus(S) == [t |-> "cls", set |-> S, lo |-> 1, many |-> TRUE, greedy |-> TRUE, cap |-> FALSE]

Star(S) == [t |-> "cls", set |-> S, lo |-> 0, many |-> TRUE, greedy |-> TRUE, cap |-> FALSE]

Opt(S) == [t |-> "cls", set |-> S, lo |-> 0, many |-> FALSE, greedy |-> TRUE, cap |-> FALSE]

LazyPlus(S) == [t |-> "cls", set |-> S, lo |-> 1, many |-> TRUE, greedy |-> FALSE, cap |-> FALSE]

Group(it) == [it EXCEPT !.cap = TRUE]

AtEnd == [t |-> "end"]

Alt(ps) == [t |-> "alt", alts |-> ps]

NoMatch == [ok |-> FALSE]

\* The longest run of characters of S in s from pos, at most one unless many.
RECURSIVE Run(_, _, _, _)
Run(s, pos, S, many) ==
    IF pos > Len(s) \/ s[pos] \notin S THEN 0
    ELSE IF many THEN 1 + Run(s, pos + 1, S, many) ELSE 1

MaxOf(S) == CHOOSE x \in S : \A y \in S : y <= x

MinOf(S) == CHOOSE x \in S : \A y \in S : x <= y

\* The backtracking matcher of re: items k.. of pat against s from pos, the
\* capture so far in cap.  A quantified item tries its repetition counts in
\* priority order (most first when greedy, fewest first when lazy) and keeps
\* the first for which the rest of the pattern matches; an alternation tries
\* its branches in order.  $ matches at the end and before a final newline.
RECURSIVE MatchFrom(_, _, _, _, _)
MatchFrom(pat, k, s, pos, cap) ==
    IF k > Len(pat) THEN [ok |-> TRUE, start |-> 0, end |-> pos, g1 |-> cap]
    ELSE LET it == pat[k] IN
      CASE it.t = "end" ->
             IF pos = Len(s) + 1 \/ (pos = Len(s) /\ s[pos] = "nl")
             THEN MatchFrom(pat, k + 1, s, pos, cap) ELSE NoMatch
        [] it.t = "alt" ->
             LET rest == SubSeq(pat, k + 1, Len(pat))
                 res == [i \in 1..Len(it.alts) |-> MatchFrom(it.alts[i] \o rest, 1, s, pos, cap)]
                 hits == {i \in 1..Len(it.alts) : res[i].ok}
             IN  IF hits = {} THEN NoMatch ELSE res[MinOf(hits)]
        [] it.t = "cls" ->
             LET most == Run(s, pos, it.set, it.many)
                 capOf(n) == IF it.cap THEN <<pos, pos + n - 1>> ELSE cap
                 try(n) == MatchFrom(pat, k + 1, s, pos + n, capOf(n))
                 hits == {n \in it.lo..most : try(n).ok}
             IN  IF hits = {} THEN NoMatch
                 ELSE IF it.greedy THEN try(MaxOf(hits)) ELSE try(MinOf(hits))

\* re.search(pat, s): the match at the leftmost position that has one.
Search(pat, s) ==
    LET starts == {i \in 1..(Len(s) + 1) : MatchFrom(pat, 1, s, i, <<1, 0>>).ok}
    IN  IF starts = {} THEN NoMatch
        ELSE [MatchFrom(pat, 1, s, MinOf(starts), <<1, 0>>) EXCEPT !.start = MinOf(starts)]

\* m.group(1)
Group1(s, m) == SubSeq(s, m.g1[1], m.g1[2])

(* --------------------------- extract_author ---------------------------- *)

\* The sentinel author, "uncategorised".
Uncategorized == <<"u1", "u2", "u3">>

\* Every pattern opens with the bracketed category and optional whitespace.
CategoryPrefix == <<One({"["}), Plus(Not({"]"})), One({"]"}), Star(WS)>>

AuthorPatterns == <<
    CategoryPrefix \o <<Group(LazyPlus(Not({"{", "(", "[", "nl"}))), Star(WS), One({"{", "("})>>,
    CategoryPrefix \o <<Group(LazyPlus(Not({"-", "~", "nl"}))), Star(WS), One({"-", "~"}),
                        Star(WS), Opt({"#"}), One(Digit)>>,
    CategoryPrefix \o <<Group(LazyPlus({"a", "1", "_", "-", " ", "nl"})),
                        Alt(<< <<Star(WS), AtEnd>>, <<Star(WS), One({"-", "~"})>> >>)>>,
    CategoryPrefix \o <<Group(Plus(Not({" ", "nl", "{", "[", "-", "("})))>>
  >>

AuthorLenOkNoUpper(author) == 2 <= StrLen(author)

\* The length window of an accepted author (line 65).
AuthorLenOk(author) == 2 <= StrLen(author) /\ StrLen(author) <= 50

RECURSIVE AuthorFrom(_, _)
AuthorFrom(title, k) ==
    IF k > Len(AuthorPatterns) THEN Uncategorized
    ELSE LET m == Search(AuthorPatterns[k], title) IN
         IF m.ok /\ AuthorLenOk(Strip(Group1(title, m)))
         THEN Strip(Group1(title, m))
         ELSE AuthorFrom(title, k + 1)

extract_author(title) == AuthorFrom(title, 1)

(* ------------------------------ records -------------------------------- *)

\* A media URL is told apart by its directory and by the stem of its file
\* name (the text between the last "/" and the extension): zeros characters
\* "0" followed by rest, a sequence of the characters "1", "2" (digits) and
\* "v" (any non-digit).  NoUrl is "".
NoUrl == [dir |-> 0, zeros |-> 0, rest |-> <<>>]

MediaUrl(d, zeros, rest) == [dir |-> d, zeros |-> zeros, rest |-> rest]

Episode(num, title, video_url) == [num |-> num, title |-> title, video_url |-> video_url]

\* f"第{num}集" and "正片", the two episode titles.
NumberedTitle(num) == [label |-> "episode", n |-> num]

FeatureTitle == [label |-> "feature", n |-> 0]

VideoInfo(id, title, author, description, cover_url, video_url, tags, episodes, page_url, error) ==
    [id |-> id, title |-> title, author |-> author, description |-> description,
     cover_url |-> cover_url, video_url |-> video_url, tags |-> tags,
     episodes |-> episodes, page_url |-> page_url, error |-> error]

(* --------------------------- extract_from_page ------------------------- *)

\* The three title rules, in listed order, as the captures the document
\* gives them (None: the rule does not match).
TitleCaptures(doc) == <<doc.h1, doc.og_title, doc.title_tag>>

\* r'\s*[-|]\s*<brand>.*$'
BrandSuffix == <<Star(WS), One({"-", "|"}), Star(WS), One({"B"}), Star(Dot), AtEnd>>

\* re.sub(BrandSuffix, '', s).  A match ends at $; what follows it is at most
\* a final newline, in which no second match can start.
StripBrand(s) ==
    LET m == Search(BrandSuffix, s)
    IN  IF m.ok THEN SubSeq(s, 1, m.start - 1) \o SubSeq(s, m.end, Len(s)) ELSE s

\* Lines 114-126: the first rule that matches decides the title.
RECURSIVE TitleFrom(_, _)
TitleFrom(caps, k) ==
    IF k > Len(caps) THEN <<>>
    ELSE IF caps[k].some THEN StripBrand(Strip(caps[k].val))
    ELSE TitleFrom(caps, k + 1)

ExtractTitle(doc) == TitleFrom(TitleCaptures(doc), 1)

\* sys.int_info.default_max_str_digits: int() of a longer digit string raises
\* ValueError.
IntMaxStrDigits == 4300

IsDigit(c) == c \in {"1", "2"}

DigitVal(c) == CASE c = "1" -> 1 [] c = "2" -> 2

\* len of the stem
StemLen(url) == url.zeros + Len(url.rest)

\* r'/(\d+)\.<ext>$' matches: the whole stem is a non-empty run of digits.
HasNumber(url) == StemLen(url) > 0 /\ \A i \in 1..Len(url.rest) : IsDigit(url.rest[i])

\* int(s) raises ValueError: the digits, leading zeros included, exceed the limit.
IntRaises(url) == StemLen(url) > IntMaxStrDigits

\* int(s): the decimal value, which leading zeros do not change.
RECURSIVE DecimalOf(_)
DecimalOf(digits) ==
    IF digits = <<>> THEN 0
    ELSE 10 * DecimalOf(SubSeq(digits, 1, Len(digits) - 1)) + DigitVal(digits[Len(digits)])

IntOf(url) == DecimalOf(url.rest)

\* any(e.num == num for e in episodes)
NumTaken(episodes, num) == \E i \in 1..Len(episodes) : episodes[i].num = num

\* KeepsNumber without the test of the numbers already used.
KeepsPositive(episodes, num) == num > 0

\* Line 191: the number is kept when positive and not yet used.
KeepsNumber(episodes, num) == num > 0 /\ ~NumTaken(episodes, num)

\* Lines 185-192, over the URLs in the order list(video_urls) gives them.
\* The result is the episode list, or raised when int() raises, with the
\* number of digits int() was given.
RECURSIVE NumberedEpisodes(_, _)
NumberedEpisodes(urls, episodes) ==
    IF urls = <<>> THEN [raised |-> FALSE, episodes |-> episodes, digits |-> 0]
    ELSE LET url == Head(urls) IN
         IF ~HasNumber(url) THEN NumberedEpisodes(Tail(urls), episodes)
         ELSE IF IntRaises(url)
              THEN [raised |-> TRUE, episodes |-> episodes, digits |-> StemLen(url)]
         ELSE LET num == IntOf(url) IN
              IF KeepsNumber(episodes, num)
              THEN NumberedEpisodes(Tail(urls), Append(episodes, Episode(num, NumberedTitle(num), url)))
              ELSE NumberedEpisodes(Tail(urls), episodes)

WithoutFallback(episodes, urls) == episodes

\* Lines 195-196: a single feature episode when no URL carries a number.
WithFallback(episodes, urls) ==
    IF episodes = <<>> /\ urls # <<>>
    THEN <<Episode(1, FeatureTitle, urls[1])>>
    ELSE episodes

\* list.sort(key=lambda e: e.num): a stable insertion sort by num.
RECURSIVE InsertByNum(_, _)
InsertByNum(sorted, e) ==
    IF sorted = <<>> THEN <<e>>
    ELSE IF sorted[Len(sorted)].num <= e.num THEN Append(sorted, e)
    ELSE Append(InsertByNum(SubSeq(sorted, 1, Len(sorted) - 1), e), sorted[Len(sorted)])

RECURSIVE SortByNumFrom(_, _)
SortByNumFrom(episodes, sorted) ==
    IF episodes = <<>> THEN sorted
    ELSE SortByNumFrom(Tail(episodes), InsertByNum(sorted, Head(episodes)))

SortByNum(episodes) == SortByNumFrom(episodes, <<>>)

\* str(e) of the ValueError int() raises.
IntLimitMessage(digits) ==
    "Exceeds the limit (" \o ToString(IntMaxStrDigits)
    \o " digits) for integer string conversion: value has " \o ToString(digits)
    \o " digits; use sys.set_int_max_str_digits() to increase the limit"

\* Lines 128-214 with the title of lines 114-126 and the author of line 202
\* at hand: return None, return a record, or raise.
ParseWith(page_url, doc, order, title, author) ==
    LET numbered == NumberedEpisodes(order, <<>>)
        episodes == SortByNum(WithFallback(numbered.episodes, order))
    IN  IF ~Truthy(title) THEN [kind |-> "return", val |-> None]
        ELSE IF numbered.raised THEN [kind |-> "raise", msg |-> IntLimitMessage(numbered.digits)]
        ELSE [kind |-> "return",
              val |-> Some(VideoInfo(page_url, title, author, doc.description,
                                     doc.cover_url,
                                     IF order # <<>> THEN order[1] ELSE NoUrl,
                                     doc.tags, episodes, page_url, None))]

\* Lines 111-214, the body of the try block once the GET has succeeded, on
\* document doc with list(video_urls) enumerating the URLs as order.
ParsePage(page_url, doc, order) ==
    LET title == ExtractTitle(doc)
    IN  ParseWith(page_url, doc, order, title, extract_author(title))

\* FailureRecord with the page number left in the title.
FailureRecordTitled(page_url, msg) ==
    VideoInfo(page_url, <<"1">>, <<>>, "", "", NoUrl, <<>>, <<>>, page_url, Some(msg))

\* Lines 219-228: the record of a scrape whose last attempt raised e.
FailureRecord(page_url, msg) ==
    VideoInfo(page_url, <<>>, <<>>, "", "", NoUrl, <<>>, <<>>, page_url, Some(msg))

(* ------------------------- generate_import_text ------------------------ *)

IsValidVideoIgnoringError(v) == Truthy(v.title) /\ (v.video_url # NoUrl \/ Truthy(v.episodes))

\* Line 237: the records the report keeps.
IsValidVideo(v) ==
    Truthy(v.title) /\ ~TruthyError(v.error) /\ (v.video_url # NoUrl \/ Truthy(v.episodes))

RECURSIVE SelectValid(_)
SelectValid(vs) ==
    IF vs = <<>> THEN <<>>
    ELSE IF IsValidVideo(Head(vs)) THEN <<Head(vs)>> \o SelectValid(Tail(vs))
    ELSE SelectValid(Tail(vs))

GroupKeyAsIs(v) == v.author

\* Line 241: video.author or the sentinel.
GroupKey(v) == IF Truthy(v.author) THEN v.author ELSE Uncategorized

\* a < b for str: the first differing code point decides, a proper prefix is
\* smaller.
RECURSIVE StrLess(_, _)
StrLess(a, b) ==
    IF b = <<>> THEN FALSE
    ELSE IF a = <<>> THEN TRUE
    ELSE IF Head(a) = Head(b) THEN StrLess(Tail(a), Tail(b))
    ELSE CodePoint(Head(a)) < CodePoint(Head(b))

\* sorted(grouped.items()): the keys are distinct, so the authors in
\* ascending order.
RECURSIVE SortedKeys(_)
SortedKeys(keys) ==
    IF keys = {} THEN <<>>
    ELSE LET least == CHOOSE a \in keys : \A b \in keys \ {a} : StrLess(a, b)
         IN  <<least>> \o SortedKeys(keys \ {least})

\* grouped[author]: the valid records of the author, in input order.
RECURSIVE GroupOf(_, _)
GroupOf(vs, author) ==
    IF vs = <<>> THEN <<>>
    ELSE IF GroupKey(Head(vs)) = author THEN <<Head(vs)>> \o GroupOf(Tail(vs), author)
    ELSE GroupOf(Tail(vs), author)

\* Lines 259-267 and 271-279: one block.  ep is the episode title of a
\* multi-episode block, None for a single one.
Block(v, ep, url) ==
    <<[k |-> "title", title |-> v.title, ep |-> ep]>>
    \o (IF v.description # "" THEN <<[k |-> "description", text |-> v.description]>> ELSE <<>>)
    \o (IF v.cover_url # "" THEN <<[k |-> "cover", url |-> v.cover_url]>> ELSE <<>>)
    \o <<[k |-> "video", url |-> url]>>
    \o (IF Truthy(v.tags) THEN <<[k |-> "tags", tags |-> v.tags]>> ELSE <<>>)
    \o <<[k |-> "blank"]>>

\* Lines 257-268: a block per episode that has a URL.
RECURSIVE EpisodeBlocks(_, _)
EpisodeBlocks(v, eps) ==
    IF eps = <<>> THEN <<>>
    ELSE (IF Head(eps).video_url # NoUrl
          THEN Block(v, Some(Head(eps).title), Head(eps).video_url) ELSE <<>>)
         \o EpisodeBlocks(v, Tail(eps))

\* Lines 255-280: the lines of one record.
VideoLines(v) ==
    IF Len(v.episodes) > 1 THEN EpisodeBlocks(v, v.episodes)
    ELSE IF v.video_url # NoUrl THEN Block(v, None, v.video_url)
    ELSE <<>>

RECURSIVE GroupLines(_)
GroupLines(vs) == IF vs = <<>> THEN <<>> ELSE VideoLines(Head(vs)) \o GroupLines(Tail(vs))

\* Lines 250-280: header, blank line and blocks of every author in turn.
RECURSIVE AuthorLines(_, _)
AuthorLines(valid, authors) ==
    IF authors = <<>> THEN <<>>
    ELSE <<[k |-> "collection", author |-> Head(authors)], [k |-> "blank"]>>
         \o GroupLines(GroupOf(valid, Head(authors)))
         \o AuthorLines(valid, Tail(authors))

\* Lines 248, 268 and 280: video_count, incremented once per block appended.
RECURSIVE EpisodeIncrements(_)
EpisodeIncrements(eps) ==
    IF eps = <<>> THEN 0
    ELSE (IF Head(eps).video_url # NoUrl THEN 1 ELSE 0) + EpisodeIncrements(Tail(eps))

VideoIncrementsPerRecord(v) == 1

VideoIncrements(v) ==
    IF Len(v.episodes) > 1 THEN EpisodeIncrements(v.episodes)
    ELSE IF v.video_url # NoUrl THEN 1
    ELSE 0

RECURSIVE GroupIncrements(_)
GroupIncrements(vs) ==
    IF vs = <<>> THEN 0 ELSE VideoIncrements(Head(vs)) + GroupIncrements(Tail(vs))

RECURSIVE AuthorIncrements(_, _)
AuthorIncrements(valid, authors) ==
    IF authors = <<>> THEN 0
    ELSE GroupIncrements(GroupOf(valid, Head(authors))) + AuthorIncrements(valid, Tail(authors))

generate_import_text(vs) ==
    LET valid == SelectValid(vs)
        authors == SortedKeys({GroupKey(valid[i]) : i \in 1..Len(valid)})
    IN  [lines |-> AuthorLines(valid, authors), video_count |-> AuthorIncrements(valid, authors)]

(* ------------------------------- inputs -------------------------------- *)

Links == 1..NumLinks

\* An href of a listing page: the archive number, written relative to the
\* site or absolute on it.
Hrefs == [rel : BOOLEAN, n : Links]

\* The listing pages the site may serve: no link, or one archive linked in
\* either spelling or in both.  A page may so be empty, repeat the archive of
\* an earlier page or bring a new one.
ListingDocs == {hrefs \in SUBSET Hrefs : \A g, h \in hrefs : g.n = h.n}

\* Lines 87-90: a relative link is prefixed with BASE_URL, so both spellings
\* of archive n become the same URL.
Normalise(href) == href.n

\* The messages str(e) of a failed GET may carry.
FailMessages == {"", "timeout"}

\* A title as the <h1> rule captures it: category, author, brand suffix.
SampleTitle == <<"[", "Z", "]", "a", "a", "-", "B">>

\* The media URL matches of a detail page, in document order: none, one
\* with a number, one whose number int() does not convert.
DocMedia == { <<>>,
              <<MediaUrl(1, 0, <<"1">>)>>,
              <<MediaUrl(1, IntMaxStrDigits, <<"1">>)>> }

\* The detail pages the site may serve.
DetailDocs == [h1 : {None, Some(SampleTitle)}, og_title : {None}, title_tag : {None},
               description : {"d"}, cover_url : {""}, tags : {<<"t">>}, media : DocMedia]

\* list(video_urls) of a document: the set of its matches, in any order.
MediaOrders(doc) == Orders(SeqToSet(doc.media))

\* ParsePage on every input of the crawl, computed once and looked up.
PageOutcomes ==
    UNION { {[link |-> link, doc |-> doc, order |-> order, out |-> ParsePage(link, doc, order)] :
               order \in MediaOrders(doc)} : link \in Links, doc \in DetailDocs }

PageOutcome(link, doc, order) ==
    (CHOOSE r \in PageOutcomes : r.link = link /\ r.doc = doc /\ r.order = order).out

(* -------------------------------- state -------------------------------- *)

VARIABLES
    pc,            \* where main is: "list" (lines 291-300), "submit" (302-310),
                   \* "crawl" (312-323), "report" (325-344), "done"
    page,          \* the loop variable of line 292
    lattempt,      \* the loop variable of line 77 in the call in progress
    all_links,     \* line 291, as a bag: its order is never read
    unique_links,  \* line 302
    futures,       \* line 310: one task per element of unique_links submitted so far
    videos,        \* line 307
    stats,         \* lines 328-335
    report,        \* line 344
    list_gets,     \* history: GETs issued by the call of get_video_links in progress
    pages_called,  \* history: the pages get_video_links was called for, in order
    stop,          \* history: why the pagination ended
    scrape         \* a call of one function on its own: its input, then its outcome

vars == <<pc, page, lattempt, all_links, unique_links, futures, videos, stats, report,
          list_gets, pages_called, stop, scrape>>

NoResult == [kind |-> "pending"]

\* A task of the pool.  attempt is the loop variable of line 104; gets (the
\* GETs issued so far) and ok_seen (one of them succeeded) are the history of
\* the call of extract_from_page while it is in progress.
NewTask(link) ==
    [link |-> link, st |-> "queued", attempt |-> 0, gets |-> 0, ok_seen |-> FALSE,
     result |-> NoResult]

\* main before its first statement.
MainInit ==
    /\ pc = "list"
    /\ page = 1
    /\ lattempt = 0
    /\ all_links = EmptyBag
    /\ unique_links = <<>>
    /\ futures = <<>>
    /\ videos = <<>>
    /\ stats = [valid_count |-> 0, no_video_count |-> 0, error_count |-> 0, total_episodes |-> 0]
    /\ report = [lines |-> <<>>, video_count |-> 0]
    /\ list_gets = 0
    /\ pages_called = <<>>
    /\ stop = "none"

NoScrape == [fn |-> "none", st |-> "none"]

Init == MainInit /\ scrape = NoScrape

(* ------------------------ get_video_links / main ----------------------- *)

\* range(3) of lines 77 and 104: the last index of it (lines 94, 217).
IsLastAttempt(attempt) == attempt = 2

\* The history of a GET: the first attempt of a call is logged as the call.
LogListCall ==
    pages_called' = IF lattempt = 0 THEN Append(pages_called, page) ELSE pages_called

\* EndPagination with the links of the earlier pages thrown away.
EndPaginationDropsLinks(why) ==
    /\ pc' = "submit"
    /\ stop' = why
    /\ lattempt' = 0
    /\ list_gets' = 0
    /\ all_links' = EmptyBag
    /\ UNCHANGED page

\* EndPagination without the break of line 297: main goes on to the next
\* page, up to MAX_PAGES.
EndPaginationGoesOn(why) ==
    /\ stop' = why
    /\ lattempt' = 0
    /\ list_gets' = 0
    /\ IF page = MAX_PAGES
       THEN pc' = "submit" /\ page' = page
       ELSE pc' = pc /\ page' = page + 1
    /\ UNCHANGED all_links

\* Lines 295-297: an empty result ends the pagination.
EndPagination(why) ==
    /\ pc' = "submit"
    /\ stop' = why
    /\ lattempt' = 0
    /\ list_gets' = 0
    /\ UNCHANGED <<page, all_links>>

\* Lines 298-300 and the next turn of the loop of line 292.
KeepLinks(links) ==
    /\ all_links' = all_links (+) SetToBag(links)
    /\ lattempt' = 0
    /\ list_gets' = 0
    /\ IF page = MAX_PAGES
       THEN pc' = "submit" /\ stop' = "max" /\ page' = page
       ELSE pc' = pc /\ stop' = stop /\ page' = page + 1

\* One GET of get_video_links that succeeds (lines 79-91), and what main does
\* with the links returned.
ListGetOk(hrefs) ==
    /\ pc = "list"
    /\ LogListCall
    /\ LET links == {Normalise(h) : h \in hrefs} IN
       IF links = {} THEN EndPagination("empty") ELSE KeepLinks(links)
    /\ UNCHANGED <<unique_links, futures, videos, stats, report, scrape>>

\* One GET of get_video_links that raises (lines 92-96): another attempt, or
\* [] after the last one, which main reads as the end of the pagination.
ListGetFail ==
    /\ pc = "list"
    /\ LogListCall
    /\ IF IsLastAttempt(lattempt)
       THEN EndPagination("failed")
       ELSE /\ lattempt' = lattempt + 1
            /\ list_gets' = list_gets + 1
            /\ UNCHANGED <<pc, page, all_links, stop>>
    /\ UNCHANGED <<unique_links, futures, videos, stats, report, scrape>>

(* ------------------------------ the pool ------------------------------- *)

\* list(all_links) in place of list(set(all_links)): a link as often as it
\* was listed.
LinkOrdersWithCopies(links) ==
    {order \in [1..BagCardinality(links) -> BagToSet(links)] :
        \A l \in BagToSet(links) :
            Cardinality({i \in 1..BagCardinality(links) : order[i] = l}) = CopiesIn(l, links)}

\* Line 302: list(set(all_links)), in any of the orders the set may have.
UniqueLinkOrders(links) == Orders(BagToSet(links))

\* Line 302 has run: unique_links holds the links, or there is none to hold.
Deduplicated == unique_links # <<>> \/ all_links = EmptyBag

\* Line 302: main deduplicates the links.
Deduplicate ==
    /\ pc = "submit"
    /\ ~Deduplicated
    /\ \E order \in UniqueLinkOrders(all_links) : unique_links' = order
    /\ UNCHANGED <<pc, page, lattempt, all_links, futures, videos, stats, report,
                   list_gets, pages_called, stop, scrape>>

\* Line 310, one turn of the comprehension: executor.submit of the next
\* link.  The workers run the tasks already submitted while main goes on
\* submitting.
SubmitNext ==
    /\ pc = "submit"
    /\ Deduplicated
    /\ Len(futures) < Len(unique_links)
    /\ futures' = Append(futures, NewTask(unique_links[Len(futures) + 1]))
    /\ UNCHANGED <<pc, page, lattempt, all_links, unique_links, videos, stats, report,
                   list_gets, pages_called, stop, scrape>>

\* Lines 310-312: every link is submitted and main enters the loop over
\* the completed tasks.
AllSubmitted ==
    /\ pc = "submit"
    /\ Deduplicated
    /\ Len(futures) = Len(unique_links)
    /\ pc' = "crawl"
    /\ UNCHANGED <<page, lattempt, all_links, unique_links, futures, videos, stats, report,
                   list_gets, pages_called, stop, scrape>>

\* The pool is open: main is in the with block of line 309.
PoolOpen == pc \in {"submit", "crawl"}

Running(fs) == {i \in 1..Len(fs) : fs[i].st = "running"}

\* A pool that takes a task while CONCURRENCY of them are running.
PoolAdmitsOneMore(fs) == Cardinality(Running(fs)) <= CONCURRENCY

\* ThreadPoolExecutor(max_workers=CONCURRENCY): a worker is free.
PoolHasIdleWorker(fs) == Cardinality(Running(fs)) < CONCURRENCY

\* A free worker takes the oldest queued task and enters extract_from_page.
StartTask(i) ==
    /\ PoolOpen
    /\ i \in 1..Len(futures)
    /\ futures[i].st = "queued"
    /\ \A j \in 1..(i - 1) : futures[j].st # "queued"
    /\ PoolHasIdleWorker(futures)
    /\ futures' = [futures EXCEPT ![i].st = "running"]
    /\ UNCHANGED <<pc, page, lattempt, all_links, unique_links, videos, stats, report,
                   list_gets, pages_called, stop, scrape>>

\* A handler whose last attempt raises again and takes the thread of main
\* down with it: the task never completes.
OnExceptionAborts(task, msg) ==
    IF IsLastAttempt(task.attempt)
    THEN [task EXCEPT !.st = "aborted"]
    ELSE [task EXCEPT !.attempt = task.attempt + 1]

\* Lines 216-229: the handler of an exception raised in the try block.
\* The last attempt returns the tagged record, an earlier one sleeps and
\* lets the loop go on.
OnException(task, msg) ==
    IF IsLastAttempt(task.attempt)
    THEN [task EXCEPT !.st = "finished", !.gets = 0, !.ok_seen = FALSE,
                      !.result = [kind |-> "return", val |-> Some(FailureRecord(task.link, msg))]]
    ELSE [task EXCEPT !.attempt = task.attempt + 1]

\* Line 109 or 110 raises on attempt futures[i].attempt.
DetailGetFail(i, msg) ==
    /\ PoolOpen
    /\ i \in 1..Len(futures)
    /\ futures[i].st = "running"
    /\ futures' = [futures EXCEPT ![i] = OnException([@ EXCEPT !.gets = @ + 1], msg)]
    /\ UNCHANGED <<pc, page, lattempt, all_links, unique_links, videos, stats, report,
                   list_gets, pages_called, stop, scrape>>

\* What the worker does with the outcome of lines 111-214.
AfterParse(task, out) ==
    IF out.kind = "raise" THEN OnException(task, out.msg)
    ELSE [task EXCEPT !.st = "finished", !.gets = 0, !.ok_seen = FALSE, !.result = out]

\* The GET of line 109 succeeds and the page is parsed.
DetailGetOk(i, doc, order) ==
    /\ PoolOpen
    /\ i \in 1..Len(futures)
    /\ futures[i].st = "running"
    /\ futures' = [futures EXCEPT ![i] =
                     AfterParse([@ EXCEPT !.gets = @ + 1, !.ok_seen = TRUE],
                                PageOutcome(@.link, doc, order))]
    /\ UNCHANGED <<pc, page, lattempt, all_links, unique_links, videos, stats, report,
                   list_gets, pages_called, stop, scrape>>

\* Lines 315-317 and 322-323: a returned record is appended, None and a
\* raised exception leave videos as it is.
Collected(vs, result) ==
    IF result.kind = "return" /\ result.val.some THEN Append(vs, result.val.val) ELSE vs

\* One turn of the loop of line 312 on a task that has completed.
Collect(i) ==
    /\ pc = "crawl"
    /\ i \in 1..Len(futures)
    /\ futures[i].st = "finished"
    /\ videos' = Collected(videos, futures[i].result)
    /\ futures' = [futures EXCEPT ![i].st = "collected"]
    /\ UNCHANGED <<pc, page, lattempt, all_links, unique_links, stats, report,
                   list_gets, pages_called, stop, scrape>>

(* ------------------------- summary and report -------------------------- *)

\* Line 328
IsCounted(v) == Truthy(v.title) /\ ~TruthyError(v.error)

\* Line 329
HasNoVideo(v) == IsCounted(v) /\ v.video_url = NoUrl /\ ~Truthy(v.episodes)

\* Line 330
IsCountedError(v) == TruthyError(v.error)

RECURSIVE TotalEpisodesPerRecord(_)
TotalEpisodesPerRecord(vs) ==
    IF vs = <<>> THEN 0
    ELSE (IF IsCounted(Head(vs)) /\ Head(vs).video_url # NoUrl THEN 1 ELSE 0)
         + TotalEpisodesPerRecord(Tail(vs))

\* Lines 332-335
RECURSIVE TotalEpisodes(_)
TotalEpisodes(vs) ==
    IF vs = <<>> THEN 0
    ELSE (IF IsCounted(Head(vs))
          THEN (IF Len(Head(vs).episodes) > 1
                THEN Cardinality({i \in 1..Len(Head(vs).episodes) : Head(vs).episodes[i].video_url # NoUrl})
                ELSE IF Head(vs).video_url # NoUrl THEN 1 ELSE 0)
          ELSE 0) + TotalEpisodes(Tail(vs))

\* Lines 328-335: the counts of the summary.
Counts(vs) ==
    [valid_count |-> Len(SelectSeq(vs, IsCounted)),
     no_video_count |-> Len(SelectSeq(vs, HasNoVideo)),
     error_count |-> Len(SelectSeq(vs, IsCountedError)),
     total_episodes |-> TotalEpisodes(vs)]

\* Lines 325-341: the loop of line 312 is over, the pool is closed and the
\* counts are taken.
Summarize ==
    /\ pc = "crawl"
    /\ \A i \in 1..Len(futures) : futures[i].st = "collected"
    /\ stats' = Counts(videos)
    /\ pc' = "report"
    /\ UNCHANGED <<page, lattempt, all_links, unique_links, futures, videos, report,
                   list_gets, pages_called, stop, scrape>>

\* Line 344
GenerateReport ==
    /\ pc = "report"
    /\ report' = generate_import_text(videos)
    /\ pc' = "done"
    /\ UNCHANGED <<page, lattempt, all_links, unique_links, futures, videos, stats,
                   list_gets, pages_called, stop, scrape>>

Next ==
    \/ \E hrefs \in ListingDocs : ListGetOk(hrefs)
    \/ ListGetFail
    \/ Deduplicate
    \/ SubmitNext
    \/ AllSubmitted
    \/ \E i \in 1..NumLinks : StartTask(i)
    \/ \E i \in 1..NumLinks, msg \in FailMessages : DetailGetFail(i, msg)
    \/ \E i \in 1..NumLinks, doc \in DetailDocs :
         \E order \in MediaOrders(doc) : DetailGetOk(i, doc, order)
    \/ \E i \in 1..NumLinks : Collect(i)
    \/ Summarize
    \/ GenerateReport

Spec == Init /\ [][Next]_vars

\* The run under a scheduler that lets every thread that can take a step take
\* one: a GET returns or raises, a worker and the main thread go on.
FairSpec == Spec /\ WF_vars(Next)

(* ------------------- the fetch functions on their own ------------------ *)

\* What a call does that the site and the clock can see, in order: its GETs
\* and its sleeps, the latter in half seconds.
GetEvent(ok) == [e |-> "get", ok |-> ok]

SleepEvent(d) == [e |-> "sleep", d |-> d]

\* Lines 106-107: time.sleep(0.5 * attempt) before the GET of a later attempt.
SleepBeforeGet(attempt) == IF attempt > 0 THEN <<SleepEvent(attempt)>> ELSE <<>>

\* Line 229: time.sleep(1 * (attempt + 1)) when the handler lets the loop go on.
SleepAfterError(attempt) ==
    IF IsLastAttempt(attempt) THEN <<>> ELSE <<SleepEvent(2 * (attempt + 1))>>

\* Lines 94-95: time.sleep(1 * (attempt + 1)) if attempt < 2.
ListSleepAfterError(attempt) ==
    IF attempt < 2 THEN <<SleepEvent(2 * (attempt + 1))>> ELSE <<>>

\* File-name stems of media URLs: no digit, "0", "1", "01", "2", and a run
\* of zeros too long for int() to convert.
ScrapeStems == { [zeros |-> 0, rest |-> <<"v">>],
                 [zeros |-> 1, rest |-> <<>>],
                 [zeros |-> 0, rest |-> <<"1">>],
                 [zeros |-> 1, rest |-> <<"1">>],
                 [zeros |-> 0, rest |-> <<"2">>],
                 [zeros |-> IntMaxStrDigits + 1, rest |-> <<>>] }

ScrapeUrls == {MediaUrl(1, stem.zeros, stem.rest) : stem \in ScrapeStems}

\* The sequences of at most n elements of S, none twice (a repeated match
\* adds nothing to the set of line 177).
SeqsNoRepeat(S, n) == UNION {Orders(T) : T \in {U \in SUBSET S : Cardinality(U) <= n}}

\* Pages that differ in their media URLs.
MediaDocs == [h1 : {Some(SampleTitle)}, og_title : {None}, title_tag : {None},
              description : {"d"}, cover_url : {""}, tags : {<<"t">>},
              media : SeqsNoRepeat(ScrapeUrls, MaxMedia)]

\* Pages that differ in what the three title rules capture: nothing, a title,
\* white space, the brand suffix alone.
TitleDocs == [h1 : {None, Some(SampleTitle), Some(<<" ">>), Some(<<"-", "B">>)},
              og_title : {None, Some(<<"a", "a">>)},
              title_tag : {None, Some(<<"Z", "|", "B">>)},
              description : {"d"}, cover_url : {""}, tags : {<<"t">>},
              media : {<<>>, <<MediaUrl(1, 0, <<"1">>)>>}]

ScrapeDocs == MediaDocs \cup TitleDocs

\* The title and the author of every page of ScrapeDocs, computed once per
\* triple of captures and looked up.
ScrapeTitles ==
    {[caps |-> caps, title |-> TitleFrom(caps, 1), author |-> extract_author(TitleFrom(caps, 1))] :
        caps \in {TitleCaptures(doc) : doc \in ScrapeDocs}}

\* ParsePage(page_url, doc, order) for a page of ScrapeDocs.
ScrapeOutcome(page_url, doc, order) ==
    LET known == CHOOSE r \in ScrapeTitles : r.caps = TitleCaptures(doc)
    IN  ParseWith(page_url, doc, order, known.title, known.author)

\* A call of extract_from_page, or one of get_video_links.
ScrapeInit ==
    /\ MainInit
    /\ \/ \E doc \in ScrapeDocs : \E order \in MediaOrders(doc) :
            scrape = [fn |-> "extract_from_page", st |-> "called", page_url |-> 1,
                      doc |-> doc, order |-> order,
                      task |-> [NewTask(1) EXCEPT !.st = "running"],
                      out |-> NoResult, log |-> <<>>]
       \/ \E p \in 1..MAX_PAGES :
            scrape = [fn |-> "get_video_links", st |-> "called", page |-> p,
                      attempt |-> 0, ret |-> {}, log |-> <<>>]

\* The call is still in its loop.
ScrapeGoesOn(task) == IF task.st = "finished" THEN "returned" ELSE "called"

\* Lines 106-229 on an attempt whose GET succeeds: the page is parsed, and
\* what the parsing raises is handled as a failed GET is.
ScrapeParse ==
    /\ scrape.fn = "extract_from_page"
    /\ scrape.st = "called"
    /\ LET attempt == scrape.task.attempt
           out == ScrapeOutcome(scrape.page_url, scrape.doc, scrape.order)
           task == AfterParse([scrape.task EXCEPT !.gets = @ + 1, !.ok_seen = TRUE], out)
       IN  scrape' = [scrape EXCEPT
                        !.st = ScrapeGoesOn(task),
                        !.task = task,
                        !.out = out,
                        !.log = @ \o SleepBeforeGet(attempt) \o <<GetEvent(TRUE)>>
                                  \o (IF out.kind = "raise" THEN SleepAfterError(attempt) ELSE <<>>)]
    /\ UNCHANGED <<pc, page, lattempt, all_links, unique_links, futures, videos, stats, report,
                   list_gets, pages_called, stop>>

\* Lines 106-110 and 216-229 on an attempt whose GET raises.
ScrapeGetFail(msg) ==
    /\ scrape.fn = "extract_from_page"
    /\ scrape.st = "called"
    /\ LET attempt == scrape.task.attempt
           task == OnException([scrape.task EXCEPT !.gets = @ + 1], msg)
       IN  scrape' = [scrape EXCEPT
                        !.st = ScrapeGoesOn(task),
                        !.task = task,
                        !.log = @ \o SleepBeforeGet(attempt) \o <<GetEvent(FALSE)>>
                                  \o SleepAfterError(attempt)]
    /\ UNCHANGED <<pc, page, lattempt, all_links, unique_links, futures, videos, stats, report,
                   list_gets, pages_called, stop>>

\* Lines 79-91 of a call of get_video_links: the GET succeeds.
ListCallOk(hrefs) ==
    /\ scrape.fn = "get_video_links"
    /\ scrape.st = "called"
    /\ scrape' = [scrape EXCEPT !.st = "returned",
                                !.ret = {Normalise(h) : h \in hrefs},
                                !.log = @ \o <<GetEvent(TRUE)>>]
    /\ UNCHANGED <<pc, page, lattempt, all_links, unique_links, futures, videos, stats, report,
                   list_gets, pages_called, stop>>

\* Lines 92-96 of a call of get_video_links: the GET raises.
ListCallFail ==
    /\ scrape.fn = "get_video_links"
    /\ scrape.st = "called"
    /\ scrape' = [scrape EXCEPT
                    !.st = IF IsLastAttempt(scrape.attempt) THEN "returned" ELSE "called",
                    !.attempt = IF IsLastAttempt(scrape.attempt) THEN @ ELSE @ + 1,
                    !.log = @ \o <<GetEvent(FALSE)>> \o ListSleepAfterError(scrape.attempt)]
    /\ UNCHANGED <<pc, page, lattempt, all_links, unique_links, futures, videos, stats, report,
                   list_gets, pages_called, stop>>

ScrapeNext ==
    \/ ScrapeParse
    \/ \E msg \in FailMessages : ScrapeGetFail(msg)
    \/ \E hrefs \in ListingDocs : ListCallOk(hrefs)
    \/ ListCallFail

ScrapeSpec == ScrapeInit /\ [][ScrapeNext]_vars

(* ----------------- the summary and the report on their own ------------- *)

\* Pages for the records of the report: a title with an author or without,
\* and no media URL, one without number, or the numbers 2 and 1.
ReportDocs == [h1 : {Some(SampleTitle), Some(<<"a", "a">>)}, og_title : {None}, title_tag : {None},
               description : {"d"}, cover_url : {""}, tags : {<<"t">>},
               media : { <<>>,
                         <<MediaUrl(1, 0, <<"v">>)>>,
                         <<MediaUrl(1, 0, <<"2">>), MediaUrl(1, 0, <<"1">>)>> }]

\* Records extract_from_page returns: those of the pages of ReportDocs, in
\* every order of their URLs, and failure records.
ScrapedRecords ==
    UNION { {ParsePage(1, doc, order).val.val : order \in MediaOrders(doc)} : doc \in ReportDocs }
    \cup {FailureRecord(1, msg) : msg \in FailMessages}

\* Records no scrape returns, which generate_import_text accepts all the
\* same: no episode with a primary URL, an empty author, an empty title, a
\* failure reason (the empty string, a message) next to content, an episode
\* without URL, a single episode without primary URL.
OtherRecords ==
    LET u1 == MediaUrl(1, 0, <<"1">>)
        u2 == MediaUrl(1, 0, <<"2">>)
        e1 == Episode(1, NumberedTitle(1), u1)
    IN  { VideoInfo(1, <<"a">>, <<>>, "d", "", u2, <<"t">>, <<>>, 1, None),
          VideoInfo(1, <<>>, <<"a", "a">>, "d", "", u1, <<"t">>, <<e1>>, 1, None),
          VideoInfo(1, <<"a">>, <<"a", "a">>, "d", "", u1, <<"t">>, <<e1>>, 1, Some("")),
          VideoInfo(1, <<"a">>, <<"a", "a">>, "d", "", u1, <<"t">>, <<e1>>, 1, Some("timeout")),
          VideoInfo(1, <<"a">>, <<"a">>, "", "", NoUrl, <<>>,
                    <<e1, Episode(2, NumberedTitle(2), NoUrl)>>, 1, None),
          VideoInfo(1, <<"a">>, <<"a">>, "", "", NoUrl, <<>>, <<e1>>, 1, None) }

ReportRecords == ScrapedRecords \cup OtherRecords

\* The sequences of at most n elements of S.
SeqsUpTo(S, n) == UNION {[1..k -> S] : k \in 0..n}

\* main at line 325 with videos filled.
ReportInit ==
    /\ MainInit
    /\ \E vs \in SeqsUpTo(ReportRecords, MaxVideos) :
         scrape = [fn |-> "main", st |-> "collected", videos |-> vs,
                   stats |-> [valid_count |-> 0, no_video_count |-> 0, error_count |-> 0,
                              total_episodes |-> 0],
                   report |-> [lines |-> <<>>, video_count |-> 0]]

\* Lines 328-335
ReportCount ==
    /\ scrape.fn = "main"
    /\ scrape.st = "collected"
    /\ scrape' = [scrape EXCEPT !.st = "counted", !.stats = Counts(scrape.videos)]
    /\ UNCHANGED <<pc, page, lattempt, all_links, unique_links, futures, videos, stats, report,
                   list_gets, pages_called, stop>>

\* Line 344
ReportText ==
    /\ scrape.fn = "main"
    /\ scrape.st = "counted"
    /\ scrape' = [scrape EXCEPT !.st = "reported", !.report = generate_import_text(scrape.videos)]
    /\ UNCHANGED <<pc, page, lattempt, all_links, unique_links, futures, videos, stats, report,
                   list_gets, pages_called, stop>>

ReportNext == ReportCount \/ ReportText

ReportSpec == ReportInit /\ [][ReportNext]_vars

(* ----------------------- extract_author on its own --------------------- *)

Category == <<"[", "Z", "]">>

Repeat(c, n) == [i \in 1..n |-> c]

\* Titles: the category and every tail of at most MaxTail characters, and
\* titles with a capture longer than 50 or of 50, with a first capture of
\* one character, and without category.
AuthorTitles ==
    {Category \o tail : tail \in SeqsUpTo({"a", " ", "-", "1", "{", "B"}, MaxTail)}
    \cup { Category \o Repeat("B", 13),
           Category \o Repeat("B", 12) \o <<"a", "a">>,
           Category \o <<"a", "a", " ">> \o Repeat("B", 13) \o <<"-", "1">>,
           Category \o <<"B", "B", "-">> \o Repeat("B", 12) \o <<"{">>,
           Category \o <<"a", "{", "-", "1">>,
           <<"a", "a", "-", "1">> }

AuthorInit ==
    /\ MainInit
    /\ \E title \in AuthorTitles :
         scrape = [fn |-> "extract_author", st |-> "called", title |-> title, ret |-> <<>>]

\* Lines 48-67
AuthorReturn ==
    /\ scrape.fn = "extract_author"
    /\ scrape.st = "called"
    /\ scrape' = [scrape EXCEPT !.st = "returned", !.ret = extract_author(scrape.title)]
    /\ UNCHANGED <<pc, page, lattempt, all_links, unique_links, futures, videos, stats, report,
                   list_gets, pages_called, stop>>

AuthorNext == AuthorReturn

AuthorSpec == AuthorInit /\ [][AuthorNext]_vars

(* ------------------------------ properties ----------------------------- *)

Tasks == 1..Len(futures)

\* Task i issues a GET in this step: a step of a running task is one turn
\* of the loop of line 104, which starts with the GET of line 109.
IssuesGet(i) == futures[i].st = "running" /\ futures'[i] # futures[i]

\* get_video_links issues a GET in this step: every step of main in the loop
\* of line 292 is one, the first of a call or a later one.
ListIssuesGet == pc = "list" /\ (pages_called' # pages_called \/ lattempt' # lattempt)

\* The record has a failure reason: error is not None.
IsTagged(v) == v.error.some

ContentEmpty(v) ==
    /\ v.title = <<>>
    /\ v.author = <<>>
    /\ v.description = ""
    /\ v.cover_url = ""
    /\ v.video_url = NoUrl
    /\ v.tags = <<>>
    /\ v.episodes = <<>>

Returned(task) == task.result.kind = "return" /\ task.result.val.some

\* The records the tasks have returned so far.
ReturnedRecords == {futures[i].result.val.val : i \in {j \in Tasks : Returned(futures[j])}}

SubmittedLinks == {futures[i].link : i \in Tasks}

Submitted == pc \in {"crawl", "report", "done"}

\* C1: a fetch of a listing page or of a detail page issues at most 3 GETs,
\* and none after a GET of it has succeeded.
C1_AtMostThreeGetsNoneAfterSuccess ==
    [][/\ ListIssuesGet => list_gets < 3
       /\ \A i \in Tasks : IssuesGet(i) => futures[i].gets < 3 /\ ~futures[i].ok_seen]_vars

\* C2: the third failing GET of a detail page makes extract_from_page return
\* a record with a failure reason and every content field empty, and no
\* record with a failure reason, returned or collected, has a content field
\* that is not empty.
C2_FailureRecordIsEmpty ==
    /\ [][\A i \in Tasks : \A msg \in FailMessages :
            (futures[i].gets = 2 /\ ~futures[i].ok_seen /\ DetailGetFail(i, msg))
                => /\ futures'[i].st = "finished"
                   /\ Returned(futures'[i])
                   /\ IsTagged(futures'[i].result.val.val)
                   /\ ContentEmpty(futures'[i].result.val.val)]_vars
    /\ [](\A v \in ReturnedRecords \cup SeqToSet(videos) : IsTagged(v) => ContentEmpty(v))

C2_Witness ==
    \E i \in Tasks : /\ futures[i].st = "collected"
                     /\ Returned(futures[i])
                     /\ IsTagged(futures[i].result.val.val)
                     /\ futures[i].result.val.val \in SeqToSet(videos)

\* C3: the listing pages fetched are 1, 2, 3, ... in this order, none is
\* beyond MAX_PAGES, and no page is fetched once a page has yielded no link.
C3_PagesInOrderUntilEmpty ==
    /\ [](/\ Len(pages_called) <= MAX_PAGES
          /\ \A k \in 1..Len(pages_called) : pages_called[k] = k)
    /\ [][(stop \in {"empty", "failed"}) => pages_called' = pages_called]_vars

C3_Witness ==
    /\ pc = "done"
    /\ stop = "empty"
    /\ pages_called = <<1, 2>>
    /\ Len(pages_called) < MAX_PAGES

\* C4: the third failing GET of a listing page ends the pagination without
\* an exception and with all_links as it was, and the links of the earlier
\* pages are the ones submitted and scraped.
C4_ListingFailureEndsPagination ==
    /\ [][(list_gets = 2 /\ ListGetFail)
            => pc' = "submit" /\ stop' = "failed" /\ all_links' = all_links]_vars
    /\ []((stop = "failed" /\ Submitted) => SubmittedLinks = BagToSet(all_links))
    /\ []((stop = "failed" /\ pc = "done") => \A i \in Tasks : futures[i].st = "collected")

C4_Witness ==
    /\ stop = "failed"
    /\ pc = "done"
    /\ Len(pages_called) > 1
    /\ BagToSet(all_links) # {}
    /\ \A l \in BagToSet(all_links) : \E i \in Tasks : futures[i].link = l /\ futures[i].st = "collected"

\* C5: the calls of extract_from_page in progress never outnumber the pool.
C5_AtMostConcurrencyRunning == Cardinality(Running(futures)) <= CONCURRENCY

C5_Witness ==
    /\ Cardinality(Running(futures)) = CONCURRENCY
    /\ \E i \in Tasks : futures[i].st = "queued"

\* C6: when every GET returns or raises and every thread goes on, the run
\* reaches the generation of the report.
C6_ReachesReport == <>(pc = "done")

C6_Witness ==
    /\ pc = "done"
    /\ stop = "failed"
    /\ \E i \in Tasks : Returned(futures[i]) /\ IsTagged(futures[i].result.val.val)
    /\ \E i \in Tasks : futures[i].result = [kind |-> "return", val |-> None]

\* C7: each distinct link of all_links has exactly one task, at the end of
\* the crawl every task has run to its return whatever the other tasks
\* returned, and a record a task has returned is in videos exactly once when
\* the task is collected and not before.
C7_OneTaskAndOneRecordPerLink ==
    /\ Submitted => /\ SubmittedLinks = BagToSet(all_links)
                    /\ \A l \in SubmittedLinks : Cardinality({i \in Tasks : futures[i].link = l}) = 1
    /\ pc \in {"report", "done"} =>
          \A i \in Tasks : futures[i].st = "collected" /\ futures[i].result.kind # "pending"
    /\ \A i \in Tasks :
          Returned(futures[i]) =>
             Cardinality({k \in 1..Len(videos) : videos[k] = futures[i].result.val.val})
                = IF futures[i].st = "collected" THEN 1 ELSE 0
    /\ Len(videos) = Cardinality({i \in Tasks : futures[i].st = "collected" /\ Returned(futures[i])})

C7_Witness ==
    /\ pc = "done"
    /\ \E l \in BagToSet(all_links) : CopiesIn(l, all_links) > 1
    /\ Len(futures) = 2
    /\ \E i, j \in Tasks : /\ Returned(futures[i]) /\ IsTagged(futures[i].result.val.val)
                           /\ Returned(futures[j]) /\ ~IsTagged(futures[j].result.val.val)
    /\ Len(videos) = 2

\* C8: a task that raised something else than a failed GET leaves no record:
\* every record with a failure reason carries the message of a failed GET.
C8_ParseExceptionLeavesNoRecord ==
    \A k \in 1..Len(videos) : IsTagged(videos[k]) => videos[k].error.val \in FailMessages

\* C9: at the end of the run error_count is the number of records with a
\* failure reason, and no line of the report comes from such a record.
C9_EveryFailureCounted ==
    pc = "done" =>
       /\ stats.error_count = Cardinality({k \in 1..Len(videos) : IsTagged(videos[k])})
       /\ report = generate_import_text(SelectSeq(videos, LAMBDA v : ~IsTagged(v)))

\* A call of extract_from_page has returned what the parsing of the page
\* returned.
ParseReturned ==
    scrape.fn = "extract_from_page" /\ scrape.st = "returned" /\ scrape.out.kind = "return"

\* C10: the episodes of a record extract_from_page returns have positive
\* numbers in strictly ascending order, hence pairwise distinct.
C10_EpisodesAscending ==
    (ParseReturned /\ scrape.out.val.some) =>
        LET eps == scrape.out.val.val.episodes IN
        /\ \A k \in 1..Len(eps) : eps[k].num > 0
        /\ \A k \in 1..(Len(eps) - 1) : eps[k].num < eps[k + 1].num
        /\ \A k, m \in 1..Len(eps) : k # m => eps[k].num # eps[m].num

\* A page whose URLs come with number 2 before number 1, with number 1 twice
\* and with number 0.
C10_Witness ==
    /\ ParseReturned
    /\ scrape.out.val.some
    /\ Len(scrape.out.val.val.episodes) = 2
    /\ Len(scrape.order) = 3
    /\ IntOf(scrape.order[1]) = 2
    /\ IntOf(scrape.order[2]) = 1
    /\ IntOf(scrape.order[3]) = 1

\* The record a call of extract_from_page has built from the page.
ParsedRecord == scrape.out.val.val

\* int() makes num of the file name of url.
CarriesNumber(url, num) == HasNumber(url) /\ ~IntRaises(url) /\ IntOf(url) = num

\* The first URL of the document that carries num.
FirstCarrying(media, num) ==
    media[MinOf({i \in 1..Len(media) : CarriesNumber(media[i], num)})]

\* The URLs of a parsing outcome: the primary one and those of the episodes.
UrlsOf(out) ==
    IF out.kind = "return" /\ out.val.some
    THEN <<out.val.val.video_url,
           [k \in 1..Len(out.val.val.episodes) |-> out.val.val.episodes[k].video_url]>>
    ELSE <<>>

\* C11: a positive number carried by URLs of the document has exactly one
\* episode, whose URL is the first of the document carrying it, and a scrape
\* of the same document with the set of line 177 in any other order gives
\* the same primary URL and the same episode URLs.
C11_FirstInDocumentWins ==
    (ParseReturned /\ scrape.out.val.some) =>
        LET eps == ParsedRecord.episodes
            media == scrape.doc.media
        IN  /\ \A i \in 1..Len(media) :
                 (HasNumber(media[i]) /\ ~IntRaises(media[i]) /\ IntOf(media[i]) > 0) =>
                    /\ Cardinality({k \in 1..Len(eps) : eps[k].num = IntOf(media[i])}) = 1
                    /\ \A k \in 1..Len(eps) :
                         eps[k].num = IntOf(media[i]) =>
                            eps[k].video_url = FirstCarrying(media, IntOf(media[i]))
            /\ \A other \in MediaOrders(scrape.doc) :
                 UrlsOf(ScrapeOutcome(scrape.page_url, scrape.doc, other)) = UrlsOf(scrape.out)

\* A call of extract_from_page has returned after an attempt whose GET
\* succeeded: the page was fetched and its media URLs were discovered.
ScrapedPage ==
    /\ scrape.fn = "extract_from_page"
    /\ scrape.st = "returned"
    /\ scrape.log # <<>>
    /\ scrape.log[Len(scrape.log)] = GetEvent(TRUE)

\* The file name of url is a decimal number greater than zero.
NamesPositiveNumber(url) == HasNumber(url) /\ DecimalOf(url.rest) > 0

\* C12: the record of a page with media URLs of which none names a positive
\* number has exactly one episode, numbered 1, labelled as the feature, with
\* one of these URLs; the record of a page without media URL has no episode
\* and an empty primary URL.
C12_FallbackEpisode ==
    (ScrapedPage /\ Returned(scrape.task)) =>
        LET v == scrape.task.result.val.val
            urls == SeqToSet(scrape.doc.media)
        IN  /\ (urls # {} /\ \A u \in urls : ~NamesPositiveNumber(u)) =>
                  /\ Len(v.episodes) = 1
                  /\ v.episodes[1].num = 1
                  /\ v.episodes[1].title = FeatureTitle
                  /\ v.episodes[1].video_url \in urls
            /\ urls = {} => (v.episodes = <<>> /\ v.video_url = NoUrl)

\* One of the three title rules matches in the document.
TitleRuleMatches(doc) == \E k \in 1..3 : TitleCaptures(doc)[k].some

\* C13: a call that fetched a page in which a title rule matches returns a
\* record with a title that is not empty; a call that fetched a page in which
\* none matches returns None and has issued no GET after the one that
\* succeeded.
C13_TitleOrNoRecord ==
    ScrapedPage =>
        IF TitleRuleMatches(scrape.doc)
        THEN Returned(scrape.task) /\ scrape.task.result.val.val.title # <<>>
        ELSE /\ scrape.task.result = [kind |-> "return", val |-> None]
             /\ Cardinality({k \in 1..Len(scrape.log) : scrape.log[k] = GetEvent(TRUE)}) = 1


(* ---------------------------- the report ------------------------------- *)

Reported == scrape.fn = "main" /\ scrape.st = "reported"

\* The positions of the lines of kind k.
LinesOfKind(lines, k) == {i \in 1..Len(lines) : lines[i].k = k}

\* A record without failure reason, with a title, and with a primary media
\* URL or an episode.
MayEmit(v) == ~IsTagged(v) /\ v.title # <<>> /\ (v.video_url # NoUrl \/ v.episodes # <<>>)

\* The same, for a failure reason that says something: error is a string
\* other than the empty one.
MayEmitUnlessReasonGiven(v) ==
    /\ ~(IsTagged(v) /\ v.error.val # "")
    /\ v.title # <<>>
    /\ (v.video_url # NoUrl \/ v.episodes # <<>>)

\* The records with a failure reason are as extract_from_page makes them
\* (C2): without content.
FailureRecordsAsScraped ==
    \A i \in 1..Len(scrape.videos) : IsTagged(scrape.videos[i]) => ContentEmpty(scrape.videos[i])

\* C14: whatever the input sequence, every block of the report has a title
\* line with a title and a video line with a URL, and no block comes from a
\* record that has a failure reason, an empty title, or neither a primary
\* media URL nor an episode: the report is the report of the input without
\* those records.  A failure reason is a message that is not empty in every
\* sequence, and any error that is not None in the sequences whose records
\* with a failure reason are those extract_from_page makes.
C14_BlocksOnlyFromValidRecords ==
    Reported =>
        LET lines == scrape.report.lines
        IN  /\ \A i \in LinesOfKind(lines, "title") : lines[i].title # <<>>
            /\ \A i \in LinesOfKind(lines, "video") : lines[i].url # NoUrl
            /\ Cardinality(LinesOfKind(lines, "title")) = Cardinality(LinesOfKind(lines, "video"))
            /\ scrape.report
                 = generate_import_text(SelectSeq(scrape.videos, MayEmitUnlessReasonGiven))
            /\ FailureRecordsAsScraped
                 => scrape.report = generate_import_text(SelectSeq(scrape.videos, MayEmit))

\* A report of a failure record, a record with a URL and no title, and a
\* record of two episodes: the blocks are those of the last.
C14_Witness ==
    /\ Reported
    /\ FailureRecordsAsScraped
    /\ \E i \in 1..Len(scrape.videos) : IsTagged(scrape.videos[i])
    /\ \E i \in 1..Len(scrape.videos) :
         ~IsTagged(scrape.videos[i]) /\ scrape.videos[i].title = <<>>
         /\ scrape.videos[i].video_url # NoUrl
    /\ \E i \in 1..Len(scrape.videos) :
         MayEmit(scrape.videos[i]) /\ Len(scrape.videos[i].episodes) = 2
    /\ scrape.report.video_count = 2
    /\ Cardinality(LinesOfKind(scrape.report.lines, "title")) = 2

\* The blocks a record is due: one per episode with a URL when it has more
\* than one episode, one when it has a primary URL otherwise, none when the
\* report does not keep it.
BlocksDue(v) ==
    IF ~IsValidVideo(v) THEN 0
    ELSE IF Len(v.episodes) > 1
         THEN Cardinality({i \in 1..Len(v.episodes) : v.episodes[i].video_url # NoUrl})
         ELSE IF v.video_url # NoUrl THEN 1 ELSE 0

RECURSIVE SumBlocksDue(_)
SumBlocksDue(vs) == IF vs = <<>> THEN 0 ELSE BlocksDue(Head(vs)) + SumBlocksDue(Tail(vs))

\* C15: the count generate_import_text returns is the number of blocks in
\* the text it returns, and that is the sum over the records of the blocks
\* each is due.
C15_CountIsNumberOfBlocks ==
    Reported =>
        /\ scrape.report.video_count = Cardinality(LinesOfKind(scrape.report.lines, "title"))
        /\ scrape.report.video_count = SumBlocksDue(scrape.videos)

\* A record of two episodes and a record of no episode with a primary URL
\* give three blocks.
C15_Witness ==
    /\ Reported
    /\ Len(scrape.videos) = 2
    /\ IsValidVideo(scrape.videos[1]) /\ Len(scrape.videos[1].episodes) = 2
    /\ IsValidVideo(scrape.videos[2]) /\ scrape.videos[2].episodes = <<>>
    /\ scrape.videos[2].video_url # NoUrl
    /\ scrape.report.video_count = 3
    /\ Cardinality(LinesOfKind(scrape.report.lines, "title")) = 3


IsHeader(line) == line.k = "collection"

\* The author under which the claim groups a record.
AuthorOf(v) == IF v.author = <<>> THEN Uncategorized ELSE v.author

\* The lines under the header at position p: from behind its blank line to
\* the next header or the end.
LinesUnder(lines, p) ==
    LET later == {q \in LinesOfKind(lines, "collection") : q > p}
        stop_at == IF later = {} THEN Len(lines) + 1
                   ELSE CHOOSE q \in later : \A r \in later : q <= r
    IN  SubSeq(lines, p + 2, stop_at - 1)

\* C16: each author of a kept record has exactly one header, the headers
\* ascend in the order of str, a record with an empty author is under the
\* header of the sentinel, and under a header come the blocks of the kept
\* records of that author in input order.
C16_GroupedSortedStable ==
    Reported =>
        LET lines == scrape.report.lines
            headers == SelectSeq(lines, IsHeader)
            kept == SelectSeq(scrape.videos, IsValidVideo)
        IN  /\ {headers[i].author : i \in 1..Len(headers)} = {AuthorOf(kept[i]) : i \in 1..Len(kept)}
            /\ \A i, j \in 1..Len(headers) : i < j => StrLess(headers[i].author, headers[j].author)
            /\ \A p \in LinesOfKind(lines, "collection") :
                 LinesUnder(lines, p) =
                     GroupLines(SelectSeq(kept, LAMBDA v : AuthorOf(v) = lines[p].author))

\* A report of two headers, with a record of empty author ahead of a record
\* of the sentinel author, both with a block under the header of the sentinel.
C16_Witness ==
    /\ Reported
    /\ Len(SelectSeq(scrape.report.lines, IsHeader)) = 2
    /\ \E i, j \in 1..Len(scrape.videos) :
         /\ i < j
         /\ scrape.videos[i].author = <<>> /\ BlocksDue(scrape.videos[i]) > 0
         /\ scrape.videos[j].author = Uncategorized /\ BlocksDue(scrape.videos[j]) > 0
         /\ scrape.videos[i].title # scrape.videos[j].title


\* C20: the video count of the console summary (lines 332-335) equals the
\* block count generate_import_text returns for the same sequence.  It holds
\* of every sequence of records, those a crawl produces among them.
C20_SummaryCountIsBlockCount ==
    Reported => scrape.stats.total_episodes = scrape.report.video_count

\* A sequence of scraped records only, one of them with two episodes and one
\* a failure record, summarised and reported with a count above one.
C20_Witness ==
    /\ Reported
    /\ \A i \in 1..Len(scrape.videos) : scrape.videos[i] \in ScrapedRecords
    /\ \E i \in 1..Len(scrape.videos) : Len(scrape.videos[i].episodes) = 2
    /\ \E i \in 1..Len(scrape.videos) : IsTagged(scrape.videos[i])
    /\ scrape.stats.total_episodes > 1


\* Every record of the sequence is one extract_from_page returns.
AllScraped == \A i \in 1..Len(scrape.videos) : scrape.videos[i] \in ScrapedRecords

\* Episodes and primary URL go together, and no episode lacks its URL.
EpisodesMatchUrl(v) ==
    /\ v.episodes # <<>> <=> v.video_url # NoUrl
    /\ \A i \in 1..Len(v.episodes) : v.episodes[i].video_url # NoUrl

\* C19: a record extract_from_page returns has episodes exactly when it has
\* a primary URL, and each of its episodes has a URL; so each such record
\* that the report keeps has a block, and in the report of such records no
\* header is without a block under it.
C19_ScrapedRecordsEmitBlocks ==
    (Reported /\ AllScraped) =>
        /\ \A i \in 1..Len(scrape.videos) : EpisodesMatchUrl(scrape.videos[i])
        /\ \A i \in 1..Len(scrape.videos) :
             IsValidVideo(scrape.videos[i]) =>
                 LinesOfKind(VideoLines(scrape.videos[i]), "title") # {}
        /\ \A p \in LinesOfKind(scrape.report.lines, "collection") :
             LinesOfKind(LinesUnder(scrape.report.lines, p), "title") # {}

\* A report of scraped records: one with the single feature episode, one
\* with two episodes, and a failure record.
C19_Witness ==
    /\ Reported /\ AllScraped
    /\ \E i \in 1..Len(scrape.videos) :
         /\ Len(scrape.videos[i].episodes) = 1
         /\ scrape.videos[i].episodes[1].title = FeatureTitle
    /\ \E i \in 1..Len(scrape.videos) : Len(scrape.videos[i].episodes) = 2
    /\ \E i \in 1..Len(scrape.videos) : IsTagged(scrape.videos[i])
    /\ LinesOfKind(scrape.report.lines, "collection") # {}

\* The first part of C19 on every call of extract_from_page on its own.
ReturnedRecordEpisodesMatchUrl ==
    (ParseReturned /\ scrape.out.val.some) => EpisodesMatchUrl(scrape.out.val.val)

\* The first part of C19 on the records a crawl collects.
CollectedEpisodesMatchUrl == \A i \in 1..Len(videos) : EpisodesMatchUrl(videos[i])


(* --------------------------- the author -------------------------------- *)

AuthorReturned == scrape.fn = "extract_author" /\ scrape.st = "returned"

\* The trimmed capture of rule k in the title; the rule is to match.
TrimmedCapture(title, k) == Strip(Group1(title, Search(AuthorPatterns[k], title)))

\* The rules that match the title with a trimmed capture of length 2 to 50.
QualifyingRules(title) ==
    {k \in 1..Len(AuthorPatterns) :
        /\ Search(AuthorPatterns[k], title).ok
        /\ StrLen(TrimmedCapture(title, k)) >= 2
        /\ StrLen(TrimmedCapture(title, k)) <= 50}

\* C17: extract_author returns the trimmed capture of the first rule whose
\* trimmed capture has a length of 2 to 50, whatever earlier rules matched
\* with a capture out of range, and the sentinel when there is none; the
\* result has a length of 2 to 50 or is the sentinel.
C17_FirstQualifyingRule ==
    AuthorReturned =>
        LET rules == QualifyingRules(scrape.title)
        IN  /\ scrape.ret = IF rules = {} THEN Uncategorized
                            ELSE TrimmedCapture(scrape.title, MinOf(rules))
            /\ \/ scrape.ret = Uncategorized
               \/ StrLen(scrape.ret) >= 2 /\ StrLen(scrape.ret) <= 50

\* The first rule matches with a capture of one character and the second
\* rule gives the author.
C17_Witness ==
    /\ AuthorReturned
    /\ Search(AuthorPatterns[1], scrape.title).ok
    /\ StrLen(TrimmedCapture(scrape.title, 1)) = 1
    /\ QualifyingRules(scrape.title) = {2}
    /\ scrape.ret = <<"a", "{">>

\* A rule matches with a capture of more than 50 characters, no rule
\* qualifies, and the sentinel is returned.
CaptureTooLongGivesSentinel ==
    /\ AuthorReturned
    /\ \E k \in 1..Len(AuthorPatterns) :
         /\ Search(AuthorPatterns[k], scrape.title).ok
         /\ StrLen(TrimmedCapture(scrape.title, k)) > 50
    /\ scrape.ret = Uncategorized


(* --------------------------- the delays -------------------------------- *)

\* The positions of the GETs in the log of a call.
GetsIn(log) == {p \in 1..Len(log) : log[p].e = "get"}

\* The position of the n-th GET.
NthGet(log, n) == CHOOSE p \in GetsIn(log) : Cardinality({q \in GetsIn(log) : q <= p}) = n

\* The sleeps between positions p and q, summed (half seconds).
RECURSIVE SleptBetween(_, _, _)
SleptBetween(log, p, q) ==
    IF p + 1 >= q THEN 0
    ELSE (IF log[p + 1].e = "sleep" THEN log[p + 1].d ELSE 0) + SleptBetween(log, p + 1, q)

\* The base delay of the claim, in half seconds: 1 s for a listing page,
\* 0.5 s for a detail page.
BaseDelay(fn) == IF fn = "get_video_links" THEN 2 ELSE 1

IsFetchCall == scrape.fn \in {"get_video_links", "extract_from_page"}

\* C18: between failed attempt n and attempt n+1 (n = 1, 2) a call sleeps
\* n times its base delay in all, and after the third attempt it does not
\* sleep.  Violated: extract_from_page sleeps 1 s * n in the handler (line
\* 229) and 0.5 s * n before the next GET (line 107), 1.5 s * n in all.
C18_DelayIsAttemptTimesBase ==
    IsFetchCall =>
        LET log == scrape.log
            gets == Cardinality(GetsIn(log))
        IN  /\ \A n \in {1, 2} :
                 gets > n => SleptBetween(log, NthGet(log, n), NthGet(log, n + 1))
                             = n * BaseDelay(scrape.fn)
            /\ gets >= 3 => SleptBetween(log, NthGet(log, 3), Len(log) + 1) = 0

\* The parts of C18 that hold: the delays of get_video_links, and no sleep
\* after the third attempt of either function.
C18_ListingDelaysAndNoneAfterThird ==
    IsFetchCall =>
        LET log == scrape.log
            gets == Cardinality(GetsIn(log))
        IN  /\ \A n \in {1, 2} :
                 (scrape.fn = "get_video_links" /\ gets > n)
                 => SleptBetween(log, NthGet(log, n), NthGet(log, n + 1)) = n * BaseDelay(scrape.fn)
            /\ gets >= 3 => SleptBetween(log, NthGet(log, 3), Len(log) + 1) = 0

\* What extract_from_page does: three half seconds per attempt failed.
DetailDelayIsThreeHalves ==
    scrape.fn = "extract_from_page" =>
        \A n \in {1, 2} :
            Cardinality(GetsIn(scrape.log)) > n
            => SleptBetween(scrape.log, NthGet(scrape.log, n), NthGet(scrape.log, n + 1)) = 3 * n

=============================================================================
